---- MODULE Spec2Model ----
(***************************************************************************)
(* A model of the host-binding layer of wamr-rust-sdk:                     *)
(*   - the signature encoder and the host function registry                *)
(*     (src/src/host_function.rs),                                         *)
(*   - the instance lifecycle and the typed user-context bridge            *)
(*     (src/src/instance.rs, src/src/user_data.rs).                        *)
(* The native engine (wamr_sys) is modelled by its observable state: the   *)
(* per-thread environment flag, the instance handles, the user-data slot   *)
(* of each instance's singleton execution context.                         *)
(***************************************************************************)
EXTENDS Integers, Sequences, FiniteSets, TLC

VARIABLES
    \* --- signature encoder (ParamTy::encode / ResultTy::encode) ---
    encParams,      \* the parameter kinds handed to the encoder
    encResult,      \* the result kind handed to the encoder
    encSig,         \* the Vec<u8> the encoder has produced
    encDone,        \* TRUE once the encoder has run
    \* --- HostFunctionList ---
    module_name,    \* HostFunctionList.module_name (CString content)
    cmem,           \* heap buffers owned by CStrings; address = index
    host_functions, \* HostFunctionList.host_functions
    native_symbols, \* HostFunctionList.native_symbols
    hfStore,        \* storage of the Vec<HostFunction>: [buf, cap]
    nsStore,        \* storage of the Vec<NativeSymbol>: [buf, cap]
    cfreed,         \* addresses of CString buffers that have been freed
    vecMoves,       \* history: times a vector's elements moved to new storage
    panicked,       \* TRUE once an unwrap() has panicked
    regLog,         \* history: the arguments of every registration that returned
    regAttempts,    \* history: the number of register_host_function calls made
    \* --- Instance<T> and the native engine ---
    threadEnv,      \* the calling thread's environment flag (engine side)
    inst,           \* engine side state of every instance handle
    userData,       \* user-data slot of each handle's exec env singleton
    heap,           \* Box<T> allocations: address -> [alloc, val]
    instances,      \* handles wrapped by a live Instance<T> value
    ctx,            \* history: the value the context of each instance should hold
    installed,      \* history: the value installed at instantiation
    written,        \* history: the embedder has written through data_mut
    hostCalls,      \* history: number of host callback invocations per handle
    fault,          \* TRUE once a freed, null or invalid address has been used
    lastOp,         \* the last operation of this layer, its result and native calls
    \* --- threads calling into one instance ---
    locking,        \* the embedder makes every call into the instance under one lock
    lockHolder,     \* the thread holding that lock, or NoThread
    tpc,            \* where each thread is in the host callback
    tptr,           \* Caller.ptr of each thread's callback invocation
    ttmp,           \* the count each thread has loaded
    tdone           \* history: callback invocations each thread has completed

encVars  == <<encParams, encResult, encSig, encDone>>
regVars  == <<module_name, cmem, host_functions, native_symbols, hfStore, nsStore,
             cfreed, vecMoves, panicked, regLog, regAttempts>>
lifeVars == <<threadEnv, inst, userData, heap, instances, ctx, installed, written, hostCalls, fault, lastOp>>
raceVars == <<locking, lockHolder, tpc, tptr, ttmp, tdone>>
vars     == <<encVars, regVars, lifeVars, raceVars>>

-----------------------------------------------------------------------------
(* Bounds *)

MaxParams == 2          \* longest parameter list handed to the encoder
RegMaxParams == 1       \* longest parameter list of a registration
MaxRegs == 2            \* registrations per registry
MaxGrowRegs == 5        \* registrations per registry when the vectors grow
MaxInst == 2            \* instance handles the engine hands out
MaxVal == 1             \* largest context value the embedder installs or writes
MaxCalls == 2           \* host callback invocations per instance
MaxRaceCalls == 2       \* host callback invocations per thread

NULL == 0

-----------------------------------------------------------------------------
(* Signature encoder *)

ParamTy  == {"I32", "I64", "F32", "F64", "Str", "Pointer", "Buffer"}
ResultTy == {"I32", "I64", "F32", "F64", "Void"}

\* bytes b'i', b'I', b'f', b'F', b'$', b'*', b'~'
Ch_i == 105
Ch_I == 73
Ch_f == 102
Ch_F == 70
Ch_dollar == 36
Ch_star == 42
Ch_tilde == 126

\* the sequences of length <= n over S
SeqsUpTo(S, n) == UNION {[1..k -> S] : k \in 0..n}

\* ParamTy::encode with Buffer pushing only b'*'
ParamTyEncode_BufferOneChar(p, str) ==
    CASE p = "I32"     -> Append(str, Ch_i)
      [] p = "I64"     -> Append(str, Ch_I)
      [] p = "F32"     -> Append(str, Ch_f)
      [] p = "F64"     -> Append(str, Ch_F)
      [] p = "Str"     -> Append(str, Ch_dollar)
      [] p = "Pointer" -> Append(str, Ch_star)
      [] p = "Buffer"  -> Append(str, Ch_star)

\* ParamTy::encode(&self, str): pushes onto str
ParamTyEncode(p, str) ==
    CASE p = "I32"     -> Append(str, Ch_i)
      [] p = "I64"     -> Append(str, Ch_I)
      [] p = "F32"     -> Append(str, Ch_f)
      [] p = "F64"     -> Append(str, Ch_F)
      [] p = "Str"     -> Append(str, Ch_dollar)
      [] p = "Pointer" -> Append(str, Ch_star)
      [] p = "Buffer"  -> str \o <<Ch_star, Ch_tilde>>

\* ResultTy::encode with Void pushing a zero byte
ResultTyEncode_VoidNul(r, str) ==
    CASE r = "I32"  -> Append(str, Ch_i)
      [] r = "I64"  -> Append(str, Ch_I)
      [] r = "F32"  -> Append(str, Ch_f)
      [] r = "F64"  -> Append(str, Ch_F)
      [] r = "Void" -> Append(str, 0)

\* ResultTy::encode(&self, str): pushes onto str
ResultTyEncode(r, str) ==
    CASE r = "I32"  -> Append(str, Ch_i)
      [] r = "I64"  -> Append(str, Ch_I)
      [] r = "F32"  -> Append(str, Ch_f)
      [] r = "F64"  -> Append(str, Ch_F)
      [] r = "Void" -> str

\* for param in params { param.encode(&mut signature) }, from index i on
RECURSIVE EncodeParams(_, _, _)
EncodeParams(params, i, str) ==
    IF i > Len(params) THEN str
    ELSE EncodeParams(params, i + 1, ParamTyEncode(params[i], str))

\* the Vec<u8> register_host_function builds before CString::new
EncodeSignature(params, result) ==
    ResultTyEncode(result, EncodeParams(params, 1, <<>>))

-----------------------------------------------------------------------------
(* CString *)

HasNul(bytes) == \E i \in 1..Len(bytes) : bytes[i] = 0

\* CString::new(bytes): Err when bytes holds a zero byte, else bytes + NUL
CStringNew(bytes) ==
    IF HasNul(bytes) THEN [ok |-> FALSE, buf |-> <<>>]
    ELSE [ok |-> TRUE, buf |-> Append(bytes, 0)]

\* the C string a native reader finds in a buffer: the bytes before the first NUL
RECURSIVE CStrOf(_)
CStrOf(buf) ==
    IF buf = <<>> \/ Head(buf) = 0 THEN <<>>
    ELSE <<Head(buf)>> \o CStrOf(Tail(buf))

\* CString::as_ptr for a CString whose buffer is the k-th allocated
AsPtr(k) == k

\* what a native reader finds at address a
CStrAt(a) == CStrOf(cmem[a])

-----------------------------------------------------------------------------
(* HostFunctionList *)

RegParamKinds == {"I32", "Buffer"}
RegResultKinds == {"I32", "Void"}
RegNames == {<<>>, <<97>>, <<98>>, <<97, 0, 98>>}
FuncPtrs == {16, 32}
ModuleNames == {<<101, 110, 118>>}

\* the smallest capacity Vec::push allocates for elements of this size
MinNonZeroCap == 4

\* Vec::new(): no storage yet
VecNew == [buf |-> 0, cap |-> 0]

\* the storage of a vector of length len after Vec::push: unchanged while
\* len < cap; else the capacity at least doubles and the allocator either
\* extends the storage in place or moves it (the first storage is always new)
VecPush(store, len) ==
    IF len < store.cap THEN {store}
    ELSE LET cap == IF 2 * store.cap > MinNonZeroCap THEN 2 * store.cap ELSE MinNonZeroCap
         IN  {[buf |-> store.buf + 1, cap |-> cap]}
                \cup (IF store.cap > 0 THEN {[buf |-> store.buf, cap |-> cap]} ELSE {})

\* pack_host_function with the name and signature addresses swapped
pack_host_function_swapped(function_name, function_ptr, signature) ==
    [symbol     |-> AsPtr(signature),
     func_ptr   |-> function_ptr,
     signature  |-> AsPtr(function_name),
     attachment |-> NULL]

\* pack_host_function(function_name, function_ptr, signature)
pack_host_function(function_name, function_ptr, signature) ==
    [symbol     |-> AsPtr(function_name),
     func_ptr   |-> function_ptr,
     signature  |-> AsPtr(signature),
     attachment |-> NULL]

\* HostFunctionList::new(module_name)
HostFunctionListNew(name) ==
    /\ module_name = CStringNew(name).buf
    /\ cmem = <<>>
    /\ host_functions = <<>>
    /\ native_symbols = <<>>
    /\ hfStore = VecNew
    /\ nsStore = VecNew
    /\ cfreed = {}
    /\ vecMoves = 0

\* register_host_function packing the addresses of temporary CStrings that
\* are dropped when the call returns
register_host_function_temporaries(function_name, function_ptr, params, result) ==
    LET signature == CStringNew(EncodeSignature(params, result))
        name      == CStringNew(function_name)
        sigAddr   == Len(cmem) + 1
        nameAddr  == Len(cmem) + 2
        tmpSig    == Len(cmem) + 3
        tmpName   == Len(cmem) + 4
    IN  /\ ~panicked
        /\ regAttempts' = regAttempts + 1
        /\ IF ~signature.ok \/ ~name.ok
           THEN /\ panicked' = TRUE
                /\ UNCHANGED <<module_name, cmem, host_functions, native_symbols,
                               hfStore, nsStore, cfreed, vecMoves, regLog>>
           ELSE /\ cmem' = cmem \o <<signature.buf, name.buf, signature.buf, name.buf>>
                /\ cfreed' = cfreed \cup {tmpSig, tmpName}
                /\ \E hs \in VecPush(hfStore, Len(host_functions)),
                      ns \in VecPush(nsStore, Len(native_symbols)) :
                        /\ hfStore' = hs
                        /\ nsStore' = ns
                        /\ vecMoves' = vecMoves
                            + (IF hs.buf # hfStore.buf /\ host_functions # <<>> THEN 1 ELSE 0)
                            + (IF ns.buf # nsStore.buf /\ native_symbols # <<>> THEN 1 ELSE 0)
                /\ host_functions' = Append(host_functions,
                        [function_name |-> nameAddr,
                         function_ptr  |-> function_ptr,
                         signature     |-> sigAddr])
                /\ native_symbols' = Append(native_symbols,
                        pack_host_function(tmpName, function_ptr, tmpSig))
                /\ regLog' = Append(regLog,
                        [name |-> function_name, ptr |-> function_ptr,
                         params |-> params, result |-> result])
                /\ UNCHANGED <<module_name, panicked>>

\* HostFunctionList::register_host_function
register_host_function(function_name, function_ptr, params, result) ==
    LET signature == CStringNew(EncodeSignature(params, result))
        name      == CStringNew(function_name)
        sigAddr   == Len(cmem) + 1
        nameAddr  == Len(cmem) + 2
    IN  /\ ~panicked
        /\ regAttempts' = regAttempts + 1
        /\ IF ~signature.ok \/ ~name.ok
           THEN \* unwrap() panics; the buffers built so far are dropped
                /\ panicked' = TRUE
                /\ UNCHANGED <<module_name, cmem, host_functions, native_symbols,
                               hfStore, nsStore, cfreed, vecMoves, regLog>>
           ELSE /\ cmem' = cmem \o <<signature.buf, name.buf>>
                /\ cfreed' = cfreed
                /\ \E hs \in VecPush(hfStore, Len(host_functions)),
                      ns \in VecPush(nsStore, Len(native_symbols)) :
                        /\ hfStore' = hs
                        /\ nsStore' = ns
                        /\ vecMoves' = vecMoves
                            + (IF hs.buf # hfStore.buf /\ host_functions # <<>> THEN 1 ELSE 0)
                            + (IF ns.buf # nsStore.buf /\ native_symbols # <<>> THEN 1 ELSE 0)
                /\ host_functions' = Append(host_functions,
                        [function_name |-> nameAddr,
                         function_ptr  |-> function_ptr,
                         signature     |-> sigAddr])
                /\ native_symbols' = Append(native_symbols,
                        LET last == host_functions'[Len(host_functions')]
                        IN  pack_host_function(last.function_name, function_ptr, last.signature))
                /\ regLog' = Append(regLog,
                        [name |-> function_name, ptr |-> function_ptr,
                         params |-> params, result |-> result])
                /\ UNCHANGED <<module_name, panicked>>

\* HostFunctionList::get_native_symbols
get_native_symbols == native_symbols

\* HostFunctionList::get_module_name
get_module_name == module_name

-----------------------------------------------------------------------------
(* The native engine, as this layer sees it.  A world w is the engine and   *)
(* allocator state a handler runs against; each native call maps a world    *)
(* to the next and logs itself in w.calls.                                  *)

Handles  == 1..MaxInst      \* wasm_module_inst_t values other than null
CtxAddrs == 1..MaxInst      \* addresses Box::new can return

World ==
    [threadEnv |-> threadEnv, inst |-> inst, userData |-> userData,
     heap |-> heap, fault |-> fault, calls |-> <<>>]

\* an instance handle the engine currently knows
ValidHandle(w, h) == h \in Handles /\ w.inst[h] = "live"

\* wasm_runtime_init_thread_env(): ok is the engine's answer
wasm_runtime_init_thread_env(w, ok) ==
    [w EXCEPT !.threadEnv = IF ok THEN TRUE ELSE @,
              !.calls = Append(@, "init_thread_env")]

\* wasm_runtime_instantiate(..): native is the handle the engine returns
wasm_runtime_instantiate(w, native) ==
    IF native = NULL THEN [w EXCEPT !.calls = Append(@, "instantiate")]
    ELSE [w EXCEPT !.inst[native] = "live",
                   !.userData[native] = NULL,
                   !.calls = Append(@, "instantiate")]

\* wasm_runtime_get_exec_env_singleton(instance); the singleton is named by its handle
wasm_runtime_get_exec_env_singleton(w, h) ==
    [w EXCEPT !.fault = @ \/ ~ValidHandle(w, h),
              !.calls = Append(@, "get_exec_env_singleton")]

\* wasm_runtime_set_user_data(exec_env, raw)
wasm_runtime_set_user_data(w, env, raw) ==
    IF ValidHandle(w, env)
    THEN [w EXCEPT !.userData[env] = raw, !.calls = Append(@, "set_user_data")]
    ELSE [w EXCEPT !.fault = TRUE, !.calls = Append(@, "set_user_data")]

\* wasm_runtime_get_user_data(exec_env): the world after the call
wasm_runtime_get_user_data(w, env) ==
    [w EXCEPT !.fault = @ \/ ~ValidHandle(w, env),
              !.calls = Append(@, "get_user_data")]

\* the address wasm_runtime_get_user_data(exec_env) returns
UserDataOf(w, env) == IF env \in Handles THEN w.userData[env] ELSE NULL

\* wasm_runtime_destroy_thread_env()
wasm_runtime_destroy_thread_env(w) ==
    [w EXCEPT !.threadEnv = FALSE, !.calls = Append(@, "destroy_thread_env")]

\* wasm_runtime_deinstantiate(instance): the handle and its exec env are gone
wasm_runtime_deinstantiate(w, h) ==
    IF ValidHandle(w, h)
    THEN [w EXCEPT !.inst[h] = "free", !.userData[h] = NULL,
                   !.calls = Append(@, "deinstantiate")]
    ELSE [w EXCEPT !.fault = TRUE, !.calls = Append(@, "deinstantiate")]

\* Box::into_raw(Box::new(data)), the allocator returning address a
BoxNew(w, a, data) ==
    [w EXCEPT !.heap[a] = [alloc |-> TRUE, val |-> data],
              !.calls = Append(@, "box_new")]

\* drop(Box::from_raw(raw))
BoxFromRaw(w, raw) ==
    IF raw \in CtxAddrs /\ w.heap[raw].alloc
    THEN [w EXCEPT !.heap[raw] = [alloc |-> FALSE, val |-> 0],
                   !.calls = Append(@, "box_from_raw")]
    ELSE [w EXCEPT !.fault = TRUE, !.calls = Append(@, "box_from_raw")]

\* a dereference of raw is sound
Live(w, raw) == raw \in CtxAddrs /\ w.heap[raw].alloc

\* &*(raw as *const T): the value read (the allocator clears a freed cell)
Deref(w, raw) == IF raw \in CtxAddrs THEN w.heap[raw].val ELSE 0

\* *(raw as *mut T) = v
Store(w, raw, v) ==
    IF raw \in CtxAddrs
    THEN [w EXCEPT !.heap[raw].val = v, !.fault = @ \/ ~w.heap[raw].alloc]
    ELSE [w EXCEPT !.fault = TRUE]

-----------------------------------------------------------------------------
(* helper.rs *)

DEFAULT_ERROR_BUF_SIZE == 128

\* the engine's diagnostic, truncated and NUL padded to the buffer's size
ErrorBuf(text) ==
    [i \in 1..DEFAULT_ERROR_BUF_SIZE |->
        IF i <= Len(text) /\ i < DEFAULT_ERROR_BUF_SIZE THEN text[i] ELSE 0]

\* error_buf_to_string(&error_buf)
error_buf_to_string(error_buf) == CStrOf(error_buf)

-----------------------------------------------------------------------------
(* Instance<T> *)

\* "thread signal env initialized failed"
MsgThreadEnv ==
    <<116, 104, 114, 101, 97, 100, 32, 115, 105, 103, 110, 97, 108, 32, 101, 110,
      118, 32, 105, 110, 105, 116, 105, 97, 108, 105, 122, 101, 100, 32, 102, 97,
      105, 108, 101, 100>>

\* "instantiation failed"
MsgInstantiationFailed ==
    <<105, 110, 115, 116, 97, 110, 116, 105, 97, 116, 105, 111, 110, 32, 102, 97,
      105, 108, 101, 100>>

\* the diagnostics the engine may leave in the error buffer
EngineTexts == {<<>>, <<101>>}

\* Err(RuntimeError::<err>(msg))
Err(w, err, msg, native) ==
    [w |-> w, ok |-> FALSE, err |-> err, msg |-> msg, h |-> NULL, native |-> native]

\* Ok(Instance { instance, .. })
Ok(w, instance) ==
    [w |-> w, ok |-> TRUE, err |-> "", msg |-> <<>>, h |-> instance, native |-> instance]

\* new_with_args going on to instantiate when the thread environment failed
new_with_args_noInitCheck(w, data, initOk, native, text, a) ==
    LET w1 == wasm_runtime_init_thread_env(w, initOk)
        error_buf == IF native = NULL THEN ErrorBuf(text) ELSE ErrorBuf(<<>>)
        w2 == wasm_runtime_instantiate(w1, native)
        w3 == BoxNew(w2, a, data)
        w4 == wasm_runtime_get_exec_env_singleton(w3, native)
        w5 == wasm_runtime_set_user_data(w4, native, a)
    IN  IF native = NULL
        THEN IF Len(error_buf) = 0
             THEN Err(w2, "InstantiationFailure", MsgInstantiationFailed, native)
             ELSE Err(w2, "InstantiationFailure", error_buf_to_string(error_buf), native)
        ELSE Ok(w5, native)

\* new_with_args wrapping whatever handle instantiate returned
new_with_args_noNullCheck(w, data, initOk, native, text, a) ==
    LET w1 == wasm_runtime_init_thread_env(w, initOk)
        w2 == wasm_runtime_instantiate(w1, native)
        w3 == BoxNew(w2, a, data)
        w4 == wasm_runtime_get_exec_env_singleton(w3, native)
        w5 == wasm_runtime_set_user_data(w4, native, a)
    IN  IF ~initOk
        THEN Err(w1, "InstantiationFailure", MsgThreadEnv, NULL)
        ELSE Ok(w5, native)

\* Instance::new_with_args(.., data); initOk, native, text are the engine's
\* answers and a the address the allocator returns
new_with_args(w, data, initOk, native, text, a) ==
    LET w1 == wasm_runtime_init_thread_env(w, initOk)
        error_buf == IF native = NULL THEN ErrorBuf(text) ELSE ErrorBuf(<<>>)
        w2 == wasm_runtime_instantiate(w1, native)
        w3 == BoxNew(w2, a, data)
        w4 == wasm_runtime_get_exec_env_singleton(w3, native)
        w5 == wasm_runtime_set_user_data(w4, native, a)
    IN  IF ~initOk
        THEN Err(w1, "InstantiationFailure", MsgThreadEnv, NULL)
        ELSE IF native = NULL
             THEN IF Len(error_buf) = 0
                  THEN Err(w2, "InstantiationFailure", MsgInstantiationFailed, native)
                  ELSE Err(w2, "InstantiationFailure", error_buf_to_string(error_buf), native)
             ELSE Ok(w5, native)

\* Instance::get_inner_instance
get_inner_instance(h) == h

\* data taking the address out of the slot
data_takesSlot(w, h) ==
    LET instance == get_inner_instance(h)
        w1 == wasm_runtime_get_exec_env_singleton(w, instance)
        w2 == wasm_runtime_get_user_data(w1, instance)
        raw_user_data == UserDataOf(w1, instance)
    IN  [w |-> [w2 EXCEPT !.fault = @ \/ ~Live(w2, raw_user_data),
                          !.userData[instance] = NULL],
         val |-> Deref(w2, raw_user_data)]

\* Instance::data: the world after the lookup, and the value read
data(w, h) ==
    LET instance == get_inner_instance(h)
        w1 == wasm_runtime_get_exec_env_singleton(w, instance)
        w2 == wasm_runtime_get_user_data(w1, instance)
        raw_user_data == UserDataOf(w1, instance)
    IN  [w |-> [w2 EXCEPT !.fault = @ \/ ~Live(w2, raw_user_data)],
         val |-> Deref(w2, raw_user_data)]

\* data_mut handing out a reference to a copy of the context
data_mut_copy(w, h, v) ==
    LET instance == get_inner_instance(h)
        w1 == wasm_runtime_get_exec_env_singleton(w, instance)
        w2 == wasm_runtime_get_user_data(w1, instance)
    IN  [w |-> w2, val |-> v]

\* Instance::data_mut followed by the embedder's write of v through the reference
data_mut(w, h, v) ==
    LET instance == get_inner_instance(h)
        w1 == wasm_runtime_get_exec_env_singleton(w, instance)
        w2 == wasm_runtime_get_user_data(w1, instance)
        raw_user_data == UserDataOf(w1, instance)
    IN  [w |-> Store(w2, raw_user_data, v), val |-> v]

\* drop deinstantiating before it reclaims the context
drop_deinstFirst(w, h) ==
    LET instance == get_inner_instance(h)
        w1 == wasm_runtime_deinstantiate(wasm_runtime_destroy_thread_env(w), h)
        raw_user_data == UserDataOf(w, instance)
        w2 == wasm_runtime_get_exec_env_singleton(w1, instance)
        w3 == wasm_runtime_get_user_data(w2, instance)
    IN  IF raw_user_data # NULL THEN BoxFromRaw(w3, raw_user_data) ELSE w3

\* drop never reclaiming the context
drop_noFree(w, h) ==
    LET instance == get_inner_instance(h)
        w1 == wasm_runtime_get_exec_env_singleton(w, instance)
        w2 == wasm_runtime_get_user_data(w1, instance)
        w4 == wasm_runtime_destroy_thread_env(w2)
    IN  wasm_runtime_deinstantiate(w4, h)

\* drop reclaiming whatever the slot holds
drop_noNullCheck(w, h) ==
    LET instance == get_inner_instance(h)
        w1 == wasm_runtime_get_exec_env_singleton(w, instance)
        w2 == wasm_runtime_get_user_data(w1, instance)
        raw_user_data == UserDataOf(w1, instance)
        w3 == BoxFromRaw(w2, raw_user_data)
        w4 == wasm_runtime_destroy_thread_env(w3)
    IN  wasm_runtime_deinstantiate(w4, h)

\* impl Drop for Instance<T>
drop(w, h) ==
    LET instance == get_inner_instance(h)
        w1 == wasm_runtime_get_exec_env_singleton(w, instance)
        w2 == wasm_runtime_get_user_data(w1, instance)
        raw_user_data == UserDataOf(w1, instance)
        w3 == IF raw_user_data # NULL THEN BoxFromRaw(w2, raw_user_data) ELSE w2
        w4 == wasm_runtime_destroy_thread_env(w3)
    IN  wasm_runtime_deinstantiate(w4, h)

-----------------------------------------------------------------------------
(* Caller<T> and the host callback of the tests *)

\* Caller::from_env(env): the world after the lookup
CallerFromEnvWorld(w, env) == wasm_runtime_get_user_data(w, env)

\* Caller::from_env(env).ptr
CallerFromEnv(w, env) == UserDataOf(w, env)

\* Caller::from_env(env).data(): the world after the read, and the value read
CallerData(w, env) ==
    LET w1 == CallerFromEnvWorld(w, env)
        ptr == CallerFromEnv(w, env)
    IN  [w |-> [w1 EXCEPT !.fault = @ \/ ~Live(w1, ptr)], val |-> Deref(w1, ptr)]

\* i32 wrapping addition
I32Add(x, y) ==
    LET s == x + y
    IN  IF s > 2147483647 THEN (s - 2147483647) - 2147483647 - 2
        ELSE IF s < -2147483647 - 1 THEN (s + 2147483647) + 2147483647 + 2 ELSE s

\* extra_with_side_effect incrementing a copy of the counter
extra_with_side_effect_copy(w, env) ==
    LET w1 == CallerFromEnvWorld(w, env)
        ptr == CallerFromEnv(w, env)
        count == I32Add(Deref(w1, ptr), 1)
    IN  [w |-> w1, val |-> count]

\* extra_with_side_effect(env): count.count += 1; count.count
extra_with_side_effect(w, env) ==
    LET w1 == CallerFromEnvWorld(w, env)
        ptr == CallerFromEnv(w, env)
        count == I32Add(Deref(w1, ptr), 1)
    IN  [w |-> Store(w1, ptr, count), val |-> count]

\* the guest's exported add(a, b): a + b + extra(), extra being the host callback
GuestAdd(w, h, a, b) ==
    LET r == extra_with_side_effect(w, h)
    IN  [w |-> r.w, val |-> I32Add(I32Add(a, b), r.val), seen |-> r.val]

CallArgs == {<<8, 8>>}

-----------------------------------------------------------------------------
(* Actions of the encoder *)

EncIdle ==
    /\ encParams = <<>>
    /\ encResult = "Void"
    /\ encSig = <<>>
    /\ encDone = FALSE

\* let mut signature = Vec::new(); ...; result.encode(&mut signature)
Encode ==
    /\ ~encDone
    /\ encSig' = EncodeSignature(encParams, encResult)
    /\ encDone' = TRUE
    /\ UNCHANGED <<encParams, encResult, regVars, lifeVars, raceVars>>

(* Actions of the registry *)

RegIdle ==
    /\ HostFunctionListNew(<<>>)
    /\ panicked = FALSE
    /\ regLog = <<>>
    /\ regAttempts = 0

Register ==
    /\ regAttempts < MaxRegs
    /\ \E function_name \in RegNames, function_ptr \in FuncPtrs,
          params \in SeqsUpTo(RegParamKinds, RegMaxParams), result \in RegResultKinds :
            register_host_function(function_name, function_ptr, params, result)
    /\ UNCHANGED <<encVars, lifeVars, raceVars>>

GrowNames == {<<97>>, <<98>>}
GrowResultKinds == {"I32", "Void"}

\* registrations drawn from few arguments, enough of them for the vectors to grow
RegisterMany ==
    /\ regAttempts < MaxGrowRegs
    /\ \E function_name \in GrowNames, result \in GrowResultKinds :
            register_host_function(function_name, 16, <<>>, result)
    /\ UNCHANGED <<encVars, lifeVars, raceVars>>

(* Actions of the instance lifecycle *)

NoOp ==
    [op |-> "none", h |-> NULL, ok |-> TRUE, err |-> "", msg |-> <<>>, val |-> 0,
     seen |-> 0, native |-> NULL, initOk |-> TRUE, text |-> <<>>, raw |-> NULL,
     envBefore |-> FALSE, calls |-> <<>>]

LifeIdle ==
    /\ threadEnv = FALSE
    /\ inst = [h \in Handles |-> "free"]
    /\ userData = [h \in Handles |-> NULL]
    /\ heap = [a \in CtxAddrs |-> [alloc |-> FALSE, val |-> 0]]
    /\ instances = {}
    /\ ctx = [h \in Handles |-> 0]
    /\ installed = [h \in Handles |-> 0]
    /\ written = [h \in Handles |-> FALSE]
    /\ hostCalls = [h \in Handles |-> 0]
    /\ fault = FALSE
    /\ lastOp = NoOp

\* the engine and allocator state a handler leaves behind
Commit(w) ==
    /\ threadEnv' = w.threadEnv
    /\ inst' = w.inst
    /\ userData' = w.userData
    /\ heap' = w.heap
    /\ fault' = w.fault

\* Instance::new / Instance::new_with_args
NewWithArgs ==
    \E d \in 0..MaxVal, initOk \in BOOLEAN, text \in EngineTexts,
       native \in {NULL} \cup {h \in Handles : inst[h] # "live"},
       a \in {x \in CtxAddrs : ~heap[x].alloc} :
        LET r == new_with_args(World, d, initOk, native, text, a)
        IN  /\ Commit(r.w)
            /\ instances' = IF r.ok THEN instances \cup {r.h} ELSE instances
            /\ ctx' = IF r.ok THEN [ctx EXCEPT ![r.h] = d] ELSE ctx
            /\ installed' = IF r.ok THEN [installed EXCEPT ![r.h] = d] ELSE installed
            /\ written' = IF r.ok THEN [written EXCEPT ![r.h] = FALSE] ELSE written
            /\ hostCalls' = IF r.ok THEN [hostCalls EXCEPT ![r.h] = 0] ELSE hostCalls
            /\ lastOp' = [NoOp EXCEPT !.op = "new", !.h = r.h, !.ok = r.ok,
                                      !.err = r.err, !.msg = r.msg, !.val = d,
                                      !.native = r.native, !.initOk = initOk,
                                      !.text = IF initOk /\ native = NULL THEN text ELSE <<>>,
                                      !.calls = r.w.calls]
            /\ UNCHANGED <<encVars, regVars, raceVars>>

\* Instance::data
Data ==
    \E h \in instances :
        LET r == data(World, h)
        IN  /\ userData[h] # NULL
            /\ Commit(r.w)
            /\ lastOp' = [NoOp EXCEPT !.op = "data", !.h = h, !.val = r.val,
                                      !.calls = r.w.calls]
            /\ UNCHANGED <<instances, ctx, installed, written, hostCalls, encVars, regVars, raceVars>>

\* Instance::data_mut, the embedder writing v through the reference
DataMut ==
    \E h \in instances, v \in 0..MaxVal :
        LET r == data_mut(World, h, v)
        IN  /\ userData[h] # NULL
            /\ Commit(r.w)
            /\ ctx' = [ctx EXCEPT ![h] = v]
            /\ written' = [written EXCEPT ![h] = TRUE]
            /\ lastOp' = [NoOp EXCEPT !.op = "data_mut", !.h = h, !.val = v,
                                      !.calls = r.w.calls]
            /\ UNCHANGED <<instances, installed, hostCalls, encVars, regVars, raceVars>>

\* Function::call of the guest's add on an instance, which runs the host callback once
FunctionCall ==
    \E h \in instances, args \in CallArgs :
        LET r == GuestAdd(World, h, args[1], args[2])
        IN  /\ userData[h] # NULL
            /\ hostCalls[h] < MaxCalls
            /\ Commit(r.w)
            /\ ctx' = [ctx EXCEPT ![h] = I32Add(@, 1)]
            /\ hostCalls' = [hostCalls EXCEPT ![h] = @ + 1]
            /\ lastOp' = [NoOp EXCEPT !.op = "call", !.h = h, !.val = r.val,
                                      !.seen = r.seen, !.calls = r.w.calls]
            /\ UNCHANGED <<instances, installed, written, encVars, regVars, raceVars>>

\* Instance::get_inner_instance
GetInnerInstance ==
    \E h \in instances :
        /\ lastOp' = [NoOp EXCEPT !.op = "get_inner_instance", !.h = h,
                                  !.val = get_inner_instance(h)]
        /\ UNCHANGED <<threadEnv, inst, userData, heap, fault, instances, ctx,
                       installed, written, hostCalls, encVars, regVars, raceVars>>

\* a host callback, handed the instance's exec env, reads the context
\* through Caller::from_env(env).data()
HostRead ==
    \E h \in instances :
        LET r == CallerData(World, h)
        IN  /\ userData[h] # NULL
            /\ Commit(r.w)
            /\ lastOp' = [NoOp EXCEPT !.op = "caller_data", !.h = h, !.val = r.val,
                                      !.calls = r.w.calls]
            /\ UNCHANGED <<instances, ctx, installed, written, hostCalls, encVars, regVars, raceVars>>

\* the Instance<T> value goes out of scope
Drop ==
    \E h \in instances :
        LET w == drop(World, h)
        IN  /\ Commit(w)
            /\ instances' = instances \ {h}
            /\ ctx' = [ctx EXCEPT ![h] = 0]
            /\ installed' = [installed EXCEPT ![h] = 0]
            /\ written' = [written EXCEPT ![h] = FALSE]
            /\ hostCalls' = [hostCalls EXCEPT ![h] = 0]
            /\ lastOp' = [NoOp EXCEPT !.op = "drop", !.h = h, !.raw = userData[h],
                                      !.envBefore = threadEnv,
                                      !.calls = w.calls]
            /\ UNCHANGED <<encVars, regVars, raceVars>>

\* code outside this layer clears the slot through the raw handle
\* get_inner_instance exposes: wasm_runtime_set_user_data(exec_env, null)
ExternalClearUserData ==
    \E h \in instances :
        LET w == wasm_runtime_set_user_data(World, h, NULL)
        IN  /\ userData[h] # NULL
            /\ Commit(w)
            /\ lastOp' = [NoOp EXCEPT !.op = "external", !.h = h, !.calls = w.calls]
            /\ UNCHANGED <<instances, ctx, installed, written, hostCalls, encVars, regVars, raceVars>>

(* Threads calling the host callback on one instance *)

Threads == {1, 2}
NoThread == 0

\* the instance both threads call into, and the address of its context
RaceInst == 1
RaceAddr == 1

RaceIdle ==
    /\ locking = FALSE
    /\ lockHolder = NoThread
    /\ tpc = [t \in Threads |-> "idle"]
    /\ tptr = [t \in Threads |-> NULL]
    /\ ttmp = [t \in Threads |-> 0]
    /\ tdone = [t \in Threads |-> 0]

\* the engine and allocator before anything was instantiated
IdleWorld ==
    [threadEnv |-> FALSE, inst |-> [h \in Handles |-> "free"],
     userData |-> [h \in Handles |-> NULL],
     heap |-> [a \in CtxAddrs |-> [alloc |-> FALSE, val |-> 0]],
     fault |-> FALSE, calls |-> <<>>]

\* count.count += 1 without the write back
CounterStore_noInc(w, ptr, count) == Store(w, ptr, count)

\* count.count += 1: the write of the incremented count
CounterStore(w, ptr, count) == Store(w, ptr, I32Add(count, 1))

\* a thread holds the &mut Counter that Caller::data_mut returned
HoldsMut(t) == tpc[t] \in {"borrowed", "loaded", "stored"}

\* the embedder calls the guest, which calls extra_with_side_effect(env):
\* let mut user_data = Caller::from_env(env)
CallbackEnter(t) ==
    /\ tpc[t] = "idle"
    /\ tdone[t] < MaxRaceCalls
    /\ locking => lockHolder = NoThread
    /\ lockHolder' = IF locking THEN t ELSE lockHolder
    /\ tptr' = [tptr EXCEPT ![t] = CallerFromEnv(World, RaceInst)]
    /\ tpc' = [tpc EXCEPT ![t] = "caller"]
    /\ UNCHANGED <<locking, ttmp, tdone, encVars, regVars, lifeVars>>

\* let count = user_data.data_mut()
CallbackBorrow(t) ==
    /\ tpc[t] = "caller"
    /\ tpc' = [tpc EXCEPT ![t] = "borrowed"]
    /\ UNCHANGED <<locking, lockHolder, tptr, ttmp, tdone, encVars, regVars, lifeVars>>

\* count.count += 1: the read of count.count
CallbackLoad(t) ==
    /\ tpc[t] = "borrowed"
    /\ ttmp' = [ttmp EXCEPT ![t] = Deref(World, tptr[t])]
    /\ tpc' = [tpc EXCEPT ![t] = "loaded"]
    /\ UNCHANGED <<locking, lockHolder, tptr, tdone, encVars, regVars, lifeVars>>

\* count.count += 1: the write
CallbackStore(t) ==
    /\ tpc[t] = "loaded"
    /\ Commit(CounterStore(World, tptr[t], ttmp[t]))
    /\ tpc' = [tpc EXCEPT ![t] = "stored"]
    /\ UNCHANGED <<instances, ctx, installed, written, hostCalls, lastOp,
                   locking, lockHolder, tptr, ttmp, tdone, encVars, regVars>>

\* the callback and the guest call return; the embedder releases its lock
CallbackReturn(t) ==
    /\ tpc[t] = "stored"
    /\ tpc' = [tpc EXCEPT ![t] = "idle"]
    /\ tdone' = [tdone EXCEPT ![t] = @ + 1]
    /\ lockHolder' = IF locking THEN NoThread ELSE lockHolder
    /\ UNCHANGED <<locking, tptr, ttmp, encVars, regVars, lifeVars>>

-----------------------------------------------------------------------------
(* Specifications *)

\* the instance lifecycle
Init == EncIdle /\ RegIdle /\ LifeIdle /\ RaceIdle
Next == NewWithArgs \/ Data \/ DataMut \/ GetInnerInstance \/ HostRead
            \/ FunctionCall \/ Drop
Spec == Init /\ [][Next]_vars

\* the instance lifecycle with foreign code that clears user-data slots
NextExt == NewWithArgs \/ Data \/ DataMut \/ GetInnerInstance \/ HostRead
            \/ FunctionCall \/ Drop \/ ExternalClearUserData
SpecExt == Init /\ [][NextExt]_vars

\* the encoder on every parameter list and result kind
InitEnc ==
    /\ encParams \in SeqsUpTo(ParamTy, MaxParams)
    /\ encResult \in ResultTy
    /\ encSig = <<>>
    /\ encDone = FALSE
    /\ RegIdle /\ LifeIdle /\ RaceIdle
NextEnc == Encode
SpecEnc == InitEnc /\ [][NextEnc]_vars

\* a registry built by HostFunctionList::new and a sequence of registrations
InitReg ==
    /\ \E name \in ModuleNames : HostFunctionListNew(name)
    /\ panicked = FALSE
    /\ regLog = <<>>
    /\ regAttempts = 0
    /\ EncIdle /\ LifeIdle /\ RaceIdle
NextReg == Register
SpecReg == InitReg /\ [][NextReg]_vars

\* two threads calling the host callback on one instance whose counter was
\* installed as 0, with or without the embedder's lock
InitRace ==
    LET r == new_with_args(IdleWorld, 0, TRUE, RaceInst, <<>>, RaceAddr)
    IN  /\ threadEnv = r.w.threadEnv
        /\ inst = r.w.inst
        /\ userData = r.w.userData
        /\ heap = r.w.heap
        /\ fault = r.w.fault
        /\ instances = {r.h}
        /\ ctx = [h \in Handles |-> 0]
        /\ installed = [h \in Handles |-> 0]
        /\ written = [h \in Handles |-> FALSE]
        /\ hostCalls = [h \in Handles |-> 0]
        /\ lastOp = [NoOp EXCEPT !.op = "new", !.h = r.h, !.native = r.native,
                                 !.calls = r.w.calls]
        /\ locking \in BOOLEAN
        /\ lockHolder = NoThread
        /\ tpc = [t \in Threads |-> "idle"]
        /\ tptr = [t \in Threads |-> NULL]
        /\ ttmp = [t \in Threads |-> 0]
        /\ tdone = [t \in Threads |-> 0]
        /\ EncIdle /\ RegIdle
NextRace ==
    \E t \in Threads :
        \/ CallbackEnter(t)
        \/ CallbackBorrow(t)
        \/ CallbackLoad(t)
        \/ CallbackStore(t)
        \/ CallbackReturn(t)
SpecRace == InitRace /\ [][NextRace]_vars

\* a registry and enough registrations for both vectors to outgrow their storage
NextGrow == RegisterMany
SpecGrow == InitReg /\ [][NextGrow]_vars

-----------------------------------------------------------------------------
(* Properties *)

\* the encoding table of the specification, section 4.1
ParamCode(p) ==
    CASE p = "I32" -> <<105>> [] p = "I64" -> <<73>> [] p = "F32" -> <<102>>
      [] p = "F64" -> <<70>>  [] p = "Str" -> <<36>> [] p = "Pointer" -> <<42>>
      [] p = "Buffer" -> <<42, 126>>

ResultCode(r) ==
    CASE r = "I32" -> <<105>> [] r = "I64" -> <<73>> [] r = "F32" -> <<102>>
      [] r = "F64" -> <<70>>  [] r = "Void" -> <<>>

\* the concatenation, in declaration order, of the table's entries
RECURSIVE ConcatCodes(_)
ConcatCodes(params) ==
    IF params = <<>> THEN <<>>
    ELSE ParamCode(Head(params)) \o ConcatCodes(Tail(params))

TableSignature(params, result) == ConcatCodes(params) \o ResultCode(result)

\* the position of native call e in the log c
PosIn(c, e) == CHOOSE i \in 1..Len(c) : c[i] = e

\* e occurs exactly once in c
Once(c, e) == Cardinality({i \in 1..Len(c) : c[i] = e}) = 1

\* C1: teardown of an instantiated instance reads the slot and frees the
\* context first, then destroys the thread environment, then deinstantiates
\* the handle; no lookup or free happens after either of the last two.
C1_TeardownOrder ==
    (lastOp.op = "drop" /\ lastOp.raw # NULL) =>
        LET c == lastOp.calls
        IN  /\ \A e \in {"get_user_data", "box_from_raw", "destroy_thread_env",
                         "deinstantiate"} : Once(c, e)
            /\ PosIn(c, "get_user_data") < PosIn(c, "box_from_raw")
            /\ PosIn(c, "box_from_raw") < PosIn(c, "destroy_thread_env")
            /\ PosIn(c, "destroy_thread_env") < PosIn(c, "deinstantiate")
            /\ \A i \in 1..Len(c) :
                    c[i] \in {"get_exec_env_singleton", "get_user_data", "box_from_raw"}
                        => i < PosIn(c, "destroy_thread_env")
            /\ ~heap[lastOp.raw].alloc
            /\ ~threadEnv
            /\ inst[lastOp.h] = "free"
            /\ ~fault

C1_Witness ==
    /\ lastOp.op = "drop"
    /\ lastOp.raw # NULL
    /\ instances # {}

\* C2: the signature the encoder builds is the concatenation, in declaration
\* order, of each parameter's table entry followed by the result's entry.
C2_SignatureIsConcatenation ==
    encDone => encSig = TableSignature(encParams, encResult)

C2_Witness ==
    /\ encDone
    /\ encParams = <<"Buffer", "Str">>
    /\ encResult = "F64"
    /\ encSig = <<42, 126, 36, 70>>

C4_DataRoundTrip ==
    /\ \A h \in instances :
            /\ userData[h] \in CtxAddrs
            /\ heap[userData[h]].alloc
            /\ heap[userData[h]].val = ctx[h]
    /\ \A h1, h2 \in instances : h1 # h2 => userData[h1] # userData[h2]
    /\ (lastOp.op = "new" /\ lastOp.ok) => heap[userData[lastOp.h]].val = lastOp.val
    /\ lastOp.op = "data" => lastOp.val = ctx[lastOp.h]

C4_Witness ==
    /\ lastOp.op = "data"
    /\ written[lastOp.h]
    /\ lastOp.val # installed[lastOp.h]
    /\ Cardinality(instances) = 2

\* C5: on an instance whose counter was installed as 0 and is changed only by
\* the host callback, the k-th call sees k and the guest returns 16 + k; the
\* counter holds k between calls and data() reads it.
C5_CounterPersists ==
    \A h \in instances :
        (installed[h] = 0 /\ ~written[h]) =>
            /\ heap[userData[h]].val = hostCalls[h]
            /\ (lastOp.op = "call" /\ lastOp.h = h) =>
                    /\ hostCalls[h] >= 1
                    /\ lastOp.seen = hostCalls[h]
                    /\ lastOp.val = 16 + hostCalls[h]
            /\ (lastOp.op = "data" /\ lastOp.h = h) => lastOp.val = hostCalls[h]

C5_Witness ==
    /\ lastOp.op = "call"
    /\ installed[lastOp.h] = 0
    /\ ~written[lastOp.h]
    /\ hostCalls[lastOp.h] = 2
    /\ lastOp.val = 18

\* C6: when instantiate returns a null handle, new_with_args fails with
\* InstantiationFailure carrying the engine's text if it is not empty and
\* "instantiation failed" if it is empty.
C6_NullHandleMessage ==
    (lastOp.op = "new" /\ lastOp.initOk /\ lastOp.native = NULL) =>
        /\ ~lastOp.ok
        /\ lastOp.err = "InstantiationFailure"
        /\ lastOp.msg = IF lastOp.text # <<>> THEN lastOp.text ELSE MsgInstantiationFailed

C9_NullSlotTeardown ==
    /\ []((lastOp.op = "drop" /\ lastOp.raw = NULL) =>
            /\ lastOp.calls = <<"get_exec_env_singleton", "get_user_data",
                                "destroy_thread_env", "deinstantiate">>
            /\ ~threadEnv
            /\ inst[lastOp.h] = "free"
            /\ ~fault)
    /\ [][(lastOp'.op = "drop" /\ lastOp'.raw = NULL) => heap' = heap]_vars

C9_Witness ==
    /\ lastOp.op = "drop"
    /\ lastOp.raw = NULL
    /\ inst[lastOp.h] = "free"

\* C10: register_host_function never panics: every call, whatever the name,
\* returns having appended one entry and one descriptor.
C10_RegisterNeverFails ==
    /\ ~panicked
    /\ Len(host_functions) = regAttempts
    /\ Len(native_symbols) = regAttempts

\* C11: Instance::new and Instance::new_with_args return
\* RuntimeError::CompilationError when they fail.
C11_FailsWithCompilationError ==
    (lastOp.op = "new" /\ ~lastOp.ok) => lastOp.err = "CompilationError"

\* C12: every installed context allocation is owned by exactly one live
\* instance until that instance's teardown frees it, once; nothing else
\* frees it and no freed, null or invalid address is ever used.
C12_ContextFreedOnce ==
    /\ [](/\ ~fault
          /\ \A a \in CtxAddrs :
                heap[a].alloc => Cardinality({h \in instances : userData[h] = a}) = 1
          /\ (lastOp.op = "drop" /\ lastOp.raw # NULL) => ~heap[lastOp.raw].alloc)
    /\ [][\A a \in CtxAddrs :
            (heap[a].alloc /\ ~heap'[a].alloc) =>
                /\ lastOp'.op = "drop"
                /\ lastOp'.raw = a
                /\ userData[lastOp'.h] = a
                /\ lastOp'.h \in instances
                /\ Once(lastOp'.calls, "box_from_raw")]_vars

C12_Witness ==
    /\ lastOp.op = "drop"
    /\ lastOp.raw # NULL
    /\ instances = {}
    /\ \A a \in CtxAddrs : ~heap[a].alloc
    /\ lastOp.raw = 2

\* C13: every successful thread environment initialization of new_with_args
\* is matched by one destroy: when instantiate then returns null the destroy
\* is issued before the error is returned, so the thread environment is
\* never left initialized with no instance owning it.
C13_ThreadEnvMatched ==
    /\ (lastOp.op = "new" /\ lastOp.initOk /\ lastOp.native = NULL) =>
            Once(lastOp.calls, "destroy_thread_env")
    /\ threadEnv => instances # {}

\* C14: with several instances on one thread, the thread environment is
\* initialized whenever an instance is live, and destroy is never called
\* on a thread whose environment is already destroyed.
C14_ThreadEnvWhileLive ==
    /\ instances # {} => threadEnv
    /\ lastOp.op = "drop" => lastOp.envBefore

\* C16: from instantiation to teardown no operation of this layer changes
\* the address in an instance's user-data slot, and the slots of distinct
\* live instances hold distinct addresses.
C16_SlotUnchanged ==
    /\ [](\A h \in instances :
            /\ userData[h] \in CtxAddrs
            /\ \A h2 \in instances \ {h} : userData[h2] # userData[h])
    /\ [][\A h \in instances \cap instances' : userData'[h] = userData[h]]_vars
    /\ [][lastOp'.op \in {"data", "data_mut", "get_inner_instance", "caller_data", "call"}
            => userData' = userData]_vars

C16_Witness ==
    /\ lastOp.op = "caller_data"
    /\ Cardinality(instances) = 2
    /\ written[lastOp.h]
    /\ hostCalls[lastOp.h] >= 1
    /\ userData[lastOp.h] \in CtxAddrs

\* C15: after any number of later registrations, vector growth and moves
\* included, the name and signature addresses in every descriptor i are the
\* addresses of the live buffers owned by entry i, holding what was registered.
C15_DescriptorsStayValid ==
    /\ [](\A i \in 1..Len(native_symbols) :
            LET d == native_symbols[i]
                e == host_functions[i]
            IN  /\ d.symbol = AsPtr(e.function_name)
                /\ d.signature = AsPtr(e.signature)
                /\ {d.symbol, d.signature} \subseteq (1..Len(cmem)) \ cfreed
                /\ CStrAt(d.symbol) = regLog[i].name
                /\ CStrAt(d.signature) = TableSignature(regLog[i].params, regLog[i].result))
    /\ [][\A i \in 1..Len(native_symbols) :
            /\ native_symbols'[i].symbol = native_symbols[i].symbol
            /\ native_symbols'[i].signature = native_symbols[i].signature
            /\ cmem'[native_symbols[i].symbol] = cmem[native_symbols[i].symbol]
            /\ cmem'[native_symbols[i].signature] = cmem[native_symbols[i].signature]]_vars

C15_Witness ==
    /\ Len(native_symbols) = 5
    /\ vecMoves >= 2
    /\ hfStore.cap = 8
    /\ nsStore.buf > 1

\* C18: the encoded signature holds no zero byte, so CString::new on it
\* succeeds, and its length is the number of parameters plus the number of
\* Buffer parameters plus one when the result is not Void.
C18_SignatureLengthAndNoNul ==
    encDone =>
        /\ \A i \in 1..Len(encSig) : encSig[i] # 0
        /\ CStringNew(encSig).ok
        /\ Len(encSig) = Len(encParams)
                + Cardinality({i \in 1..Len(encParams) : encParams[i] = "Buffer"})
                + (IF encResult = "Void" THEN 0 ELSE 1)

C18_Witness ==
    /\ encDone
    /\ encParams = <<"Buffer", "Buffer">>
    /\ encResult = "Void"
    /\ Len(encSig) = 4

\* C17: when every call into the instance is made under one lock, two threads
\* never hold mutable access to the context at once and no increment is
\* lost; with no lock, a state where both hold it and an increment is lost
\* is reachable (C17_Witness).
C17_LockExcludesRace ==
    locking =>
        /\ ~(HoldsMut(1) /\ HoldsMut(2))
        /\ heap[RaceAddr].val = tdone[1] + tdone[2]
                + Cardinality({t \in Threads : tpc[t] = "stored"})
        /\ ~fault

C17_Witness ==
    /\ ~locking
    /\ tpc[1] = "stored"
    /\ tpc[2] = "stored"
    /\ tptr[1] = tptr[2]
    /\ heap[RaceAddr].val = tdone[1] + tdone[2] + 1

====
